---- MODULE Spec2Model ----
(***************************************************************************)
(* Session state synchronisation of ace_music_gen's web front end.        *)
(*                                                                         *)
(* The client side is the zustand store of stores/session-store.ts and    *)
(* the chat page's effect (app/chat/[sessionId]/page.tsx).  Every store   *)
(* handler runs to its next await without interruption (JavaScript is     *)
(* single threaded, zustand's set is synchronous), so one action is one   *)
(* such run.  The server side (state_tracker.py, api_server.py) is not    *)
(* part of the sources at hand; the Session State Tracker and the Event   *)
(* Broadcaster are modelled from sections 3, 4.1 and 4.2 of the design.   *)
(*                                                                         *)
(* An EventSource keeps its listeners until it is closed: the listeners   *)
(* are closures over the store, so a stream the store no longer refers to *)
(* still writes to the store.  close() discards what the stream has not   *)
(* yet dispatched.  updateSessionState, toggleDebugPanel and setError     *)
(* have no caller in the sources and are left out.                        *)
(***************************************************************************)
EXTENDS Integers, Sequences, FiniteSets, TLC

(***************************************************************************)
(* Bounds of the model.                                                    *)
(***************************************************************************)
MaxES == 2          \* EventSource objects the client may create
MaxCalls == 2       \* connectToStream invocations awaiting their snapshot
MaxCliOps == 3      \* user / page initiated store operations
MaxSrvOps == 2      \* tracker mutations
MaxNetErrs == 1     \* transport failures
MaxStarts == 1      \* startSession invocations in flight
MaxLogAppends == 52 \* debug log appends in the debug-log specification
MaxLogQueue == 2    \* undelivered events in the debug-log specification
MaxReqs == 2        \* fetchSessionResult / reviewLyrics invocations in flight
MaxTrkOps == 8      \* accepted mutations in the tracker specification
MaxVersions == 2    \* lyrics versions of a session
MaxTurns == 1       \* conversation turns in the tracker specification

(***************************************************************************)
(* Program constants.                                                      *)
(***************************************************************************)
DebugLogCap == 50

Null == "null"
NoES == 0
Sessions == {"A", "B"}
ESIds == 1..MaxES
CallIds == 1..MaxCalls
ReqIds == 1..MaxReqs
Roles == {"user", "assistant"}
ErrorStrings == {"boom"}

SSEFailed == "SSE connect failed"           \* 'SSE连接失败'
SessionCreated == "session created"         \* '会话已创建，正在初始化...'
StartFailed == "start session failed"       \* '创建会话失败'
ReviewFailed == "review failed"             \* '歌词审核失败'
SendFailed == "send message failed"         \* '发送消息失败'
NetworkError == "network error"             \* message of a thrown Error

Stages == {"initializing", "collecting_requirements", "generating_lyrics",
           "reviewing_lyrics", "preparing_generation", "generating_music",
           "evaluating_results", "completed", "failed"}
Terminal == {"completed", "failed"}

VARIABLES
    store,      \* the zustand store (session-store.ts:64-79)
    es,         \* the EventSource objects created by createEventSource
    calls,      \* connectToStream invocations suspended at getSessionState
    starts,     \* startSession invocations suspended at apiClient.startSession
    timers,     \* pending setTimeout callbacks of the chat page
    srv,        \* the tracker's Session Records
    cliOps, srvOps, netErrs,   \* budgets
    last,       \* the store handler that ran last, and whether the event
                \* it applied was already reflected in the store
    reqs,       \* fetchSessionResult / reviewLyrics invocations suspended
                \* at their request
    trk         \* what the tracker reported to the caller of its last operation

vars == <<store, es, calls, starts, timers, srv, cliOps, srvOps, netErrs, last,
          reqs, trk>>

(***************************************************************************)
(* Helpers.                                                                *)
(***************************************************************************)
LastN(s, n) == IF Len(s) <= n THEN s ELSE SubSeq(s, Len(s) - n + 1, Len(s))

FirstN(s, n) == IF Len(s) <= n THEN s ELSE SubSeq(s, 1, n)

ClosedES == [state |-> "closed", session |-> Null, queue |-> <<>>]
UnusedES == [state |-> "none", session |-> Null, queue |-> <<>>]
IdleCall == [pc |-> "idle", sid |-> Null, resp |-> [ok |-> "none"]]

Live(e) == es[e].state \in {"connecting", "open"}
LiveES == {e \in ESIds : Live(e)}
FreeES == {e \in ESIds : es[e].state = "none"}
FreeCalls == {c \in CallIds : calls[c].pc = "idle"}
PendingCalls == {c \in CallIds : calls[c].pc # "idle"}
Min(S) == CHOOSE x \in S : \A y \in S : x <= y
Did(op) == [op |-> op, reflected |-> FALSE]

IdleReq == [op |-> "idle", pc |-> "idle", sid |-> Null, arg |-> <<>>,
            resp |-> [ok |-> "none"]]
FreeReqs == {r \in ReqIds : reqs[r].pc = "idle"}
NoReport == [op |-> "none", sid |-> Null, err |-> Null, emitted |-> <<>>]
Feedbacks == {Null, "too slow"}
FeedbackArgs == {Null, "", "too slow"}      \* undefined, '', a text
ResultPayload == "result"

(***************************************************************************)
(* Session State Tracker and Event Broadcaster (design sections 3-4.2).    *)
(***************************************************************************)
Edges == {<<"initializing", "collecting_requirements">>,
          <<"collecting_requirements", "generating_lyrics">>,
          <<"generating_lyrics", "reviewing_lyrics">>,
          <<"reviewing_lyrics", "generating_lyrics">>,
          <<"reviewing_lyrics", "preparing_generation">>,
          <<"preparing_generation", "generating_music">>,
          <<"generating_music", "evaluating_results">>,
          <<"evaluating_results", "completed">>}
         \cup {<<s, "failed">> : s \in Stages \ Terminal}

\* the description and progress the pipeline passes for each stage
DescOf(s) == IF s = "initializing" THEN "" ELSE s
ProgOf(s) ==
    CASE s = "initializing" -> 0
      [] s = "collecting_requirements" -> 10
      [] s = "generating_lyrics" -> 20
      [] s = "reviewing_lyrics" -> 30
      [] s = "preparing_generation" -> 40
      [] s = "generating_music" -> 60
      [] s = "evaluating_results" -> 80
      [] s = "completed" -> 100
      [] OTHER -> 5

NewSession == [exists |-> TRUE, stage |-> "initializing", description |-> "",
               progress |-> 0, history |-> <<>>, userRequirement |-> Null,
               lyricsVersions |-> <<>>, debugLogs |-> <<>>, logCount |-> 0,
               result |-> Null]
NoSession == [NewSession EXCEPT !.exists = FALSE]

\* getSnapshot: a materialised copy of the record, as the snapshot response
getSnapshot(sid) ==
    [current_stage |-> srv[sid].stage,
     stage_description |-> srv[sid].description,
     progress_percentage |-> srv[sid].progress,
     conversation_history |-> srv[sid].history,
     user_requirement |-> srv[sid].userRequirement,
     lyrics_versions |-> srv[sid].lyricsVersions,
     debug_logs |-> srv[sid].debugLogs]

\* mutant of the fan-out: only the first subscriber of the session is served
BroadcastFirstOnly(sid, ev) ==
    [e \in ESIds |->
        IF /\ es[e].state = "open" /\ es[e].session = sid
           /\ \A o \in ESIds : (es[o].state = "open" /\ es[o].session = sid) => e <= o
        THEN [es[e] EXCEPT !.queue = Append(@, ev)]
        ELSE es[e]]

\* fan-out: the delta is pushed to every stream subscribed at this moment;
\* nothing is buffered for streams that subscribe later
Broadcast(sid, ev) ==
    [e \in ESIds |->
        IF es[e].state = "open" /\ es[e].session = sid
        THEN [es[e] EXCEPT !.queue = Append(@, ev)]
        ELSE es[e]]

Mutable(sid) == srv[sid].exists /\ srv[sid].stage \notin Terminal

DoAppendConversationTurn(sid, role) ==
    LET turn == [role |-> role, content |-> "text",
                 timestamp |-> Len(srv[sid].history) + 1]
    IN /\ srv' = [srv EXCEPT ![sid].history = Append(@, turn)]
       /\ es' = Broadcast(sid, [kind |-> "chat_message", data |-> turn])

appendConversationTurn(sid, role) ==
    /\ srvOps < MaxSrvOps
    /\ Mutable(sid)
    /\ DoAppendConversationTurn(sid, role)
    /\ srvOps' = srvOps + 1
    /\ UNCHANGED <<store, calls, starts, timers, cliOps, netErrs, last, reqs, trk>>

StateUpdate(sid, newStage) ==
    [kind |-> "state_update",
     data |-> [stage |-> newStage, description |-> DescOf(newStage),
               progress |-> ProgOf(newStage)]]

DoAdvanceStage(sid, newStage) ==
    /\ srv' = [srv EXCEPT ![sid].stage = newStage,
                          ![sid].description = DescOf(newStage),
                          ![sid].progress = ProgOf(newStage)]
    /\ es' = Broadcast(sid, StateUpdate(sid, newStage))

advanceStage(sid, newStage) ==
    /\ srvOps < MaxSrvOps
    /\ Mutable(sid)
    /\ <<srv[sid].stage, newStage>> \in Edges
    /\ DoAdvanceStage(sid, newStage)
    /\ srvOps' = srvOps + 1
    /\ UNCHANGED <<store, calls, starts, timers, cliOps, netErrs, last, reqs, trk>>

DoAppendDebugLog(sid) ==
    LET log == [timestamp |-> srv[sid].logCount + 1, level |-> "info",
                message |-> "log"]
    IN /\ srv' = [srv EXCEPT ![sid].debugLogs = LastN(Append(@, log), DebugLogCap),
                             ![sid].logCount = @ + 1]
       /\ es' = Broadcast(sid, [kind |-> "debug_log", data |-> log])

\* always succeeds; bounded here by the number of appends and by the
\* number of events not yet delivered
appendDebugLog(sid) ==
    /\ srv[sid].exists
    /\ srv[sid].logCount < MaxLogAppends
    /\ \A e \in ESIds : Len(es[e].queue) < MaxLogQueue
    /\ DoAppendDebugLog(sid)
    /\ UNCHANGED <<store, calls, starts, timers, cliOps, srvOps, netErrs, last, reqs, trk>>

\* a pipeline failure that is not structural is surfaced as an error event
emitError(sid, msg) ==
    /\ srvOps < MaxSrvOps
    /\ srv[sid].exists
    /\ es' = Broadcast(sid, [kind |-> "error", data |-> [error |-> msg]])
    /\ srvOps' = srvOps + 1
    /\ UNCHANGED <<store, calls, starts, timers, srv, cliOps, netErrs, last, reqs, trk>>

(***************************************************************************)
(* The tracker's operations as their caller sees them: an operation either *)
(* mutates the record and emits one delta, or is rejected with an error of *)
(* the taxonomy of section 7 and changes nothing.  trk keeps the outcome.  *)
(***************************************************************************)
Accepted(op, sid, ev) == [op |-> op, sid |-> sid, err |-> Null, emitted |-> <<ev>>]
Rejected(op, sid, err) == [op |-> op, sid |-> sid, err |-> err, emitted |-> <<>>]

\* mutants of the rejection rules, for the checks of the claims below
RefusalOpenEnded(sid) == IF ~srv[sid].exists THEN "SessionNotFound" ELSE Null
advanceStageErrorAnyEdge(sid, newStage) == RefusalOpenEnded(sid)

\* why a mutation of the session is refused whatever its arguments are
Refusal(sid) ==
    IF ~srv[sid].exists THEN "SessionNotFound"
    ELSE IF srv[sid].stage \in Terminal THEN "SessionClosed"
    ELSE Null

advanceStageError(sid, newStage) ==
    IF Refusal(sid) # Null THEN Refusal(sid)
    ELSE IF <<srv[sid].stage, newStage>> \notin Edges THEN "IllegalTransition"
    ELSE Null

trackerAdvanceStage(sid, newStage) ==
    /\ IF advanceStageError(sid, newStage) = Null
       THEN /\ srvOps < MaxTrkOps
            /\ DoAdvanceStage(sid, newStage)
            /\ srvOps' = srvOps + 1
            /\ trk' = Accepted("advanceStage", sid, StateUpdate(sid, newStage))
       ELSE /\ trk' = Rejected("advanceStage", sid, advanceStageError(sid, newStage))
            /\ UNCHANGED <<srv, es, srvOps>>
    /\ UNCHANGED <<store, calls, starts, timers, cliOps, netErrs, last, reqs>>

trackerAppendConversationTurn(sid, role) ==
    /\ IF Refusal(sid) = Null
       THEN /\ srvOps < MaxTrkOps
            /\ Len(srv[sid].history) < MaxTurns
            /\ DoAppendConversationTurn(sid, role)
            /\ srvOps' = srvOps + 1
            /\ trk' = Accepted("appendConversationTurn", sid,
                               [kind |-> "chat_message",
                                data |-> srv'[sid].history[Len(srv'[sid].history)]])
       ELSE /\ trk' = Rejected("appendConversationTurn", sid, Refusal(sid))
            /\ UNCHANGED <<srv, es, srvOps>>
    /\ UNCHANGED <<store, calls, starts, timers, cliOps, netErrs, last, reqs>>

\* lyrics changes have no event kind of their own: the delta restates the
\* session's current stage, description and progress
StateUpdateNow(sid) ==
    [kind |-> "state_update",
     data |-> [stage |-> srv[sid].stage, description |-> srv[sid].description,
               progress |-> srv[sid].progress]]

VersionsOf(sid) == {srv[sid].lyricsVersions[i].version :
                        i \in 1..Len(srv[sid].lyricsVersions)}
Max(S) == CHOOSE x \in S : \A y \in S : y <= x

\* max existing + 1, or 1 if none
nextVersion(sid) == IF VersionsOf(sid) = {} THEN 1 ELSE Max(VersionsOf(sid)) + 1

addLyricsVersion(sid) ==
    /\ IF Refusal(sid) = Null
       THEN /\ srvOps < MaxTrkOps
            /\ Len(srv[sid].lyricsVersions) < MaxVersions
            /\ srv' = [srv EXCEPT ![sid].lyricsVersions =
                          Append(@, [version |-> nextVersion(sid),
                                     content |-> "lyrics", approved |-> FALSE,
                                     user_feedback |-> Null])]
            /\ es' = Broadcast(sid, StateUpdateNow(sid))
            /\ srvOps' = srvOps + 1
            /\ trk' = Accepted("addLyricsVersion", sid, StateUpdateNow(sid))
       ELSE /\ trk' = Rejected("addLyricsVersion", sid, Refusal(sid))
            /\ UNCHANGED <<srv, es, srvOps>>
    /\ UNCHANGED <<store, calls, starts, timers, cliOps, netErrs, last, reqs>>

reviewedAll(lv, version, approved, feedback) ==
    [i \in 1..Len(lv) |-> [lv[i] EXCEPT !.approved = approved,
                                        !.user_feedback = feedback]]

\* flips approved / feedback of the addressed version in place
reviewed(lv, version, approved, feedback) ==
    [i \in 1..Len(lv) |->
        IF lv[i].version = version
        THEN [lv[i] EXCEPT !.approved = approved, !.user_feedback = feedback]
        ELSE lv[i]]

reviewLyricsError(sid, version) ==
    IF ~srv[sid].exists THEN "SessionNotFound"
    ELSE IF version \notin VersionsOf(sid) THEN "VersionNotFound"
    ELSE Refusal(sid)

trackerReviewLyrics(sid, version, approved, feedback) ==
    /\ IF reviewLyricsError(sid, version) = Null
       THEN /\ srvOps < MaxTrkOps
            /\ srv' = [srv EXCEPT ![sid].lyricsVersions =
                          reviewed(@, version, approved, feedback)]
            /\ es' = Broadcast(sid, StateUpdateNow(sid))
            /\ srvOps' = srvOps + 1
            /\ trk' = Accepted("reviewLyrics", sid, StateUpdateNow(sid))
       ELSE /\ trk' = Rejected("reviewLyrics", sid, reviewLyricsError(sid, version))
            /\ UNCHANGED <<srv, es, srvOps>>
    /\ UNCHANGED <<store, calls, starts, timers, cliOps, netErrs, last, reqs>>

setResultErrorReplacing(sid) ==
    IF ~srv[sid].exists THEN "SessionNotFound"
    ELSE IF srv[sid].stage # "completed" THEN "IllegalTransition"
    ELSE Null

\* legal only in completed, and only while no result is set
setResultError(sid) ==
    IF ~srv[sid].exists THEN "SessionNotFound"
    ELSE IF srv[sid].stage # "completed" THEN "IllegalTransition"
    ELSE IF srv[sid].result # Null THEN "IllegalTransition"
    ELSE Null

Complete(sid) == [kind |-> "complete", data |-> [session_id |-> sid]]

DoSetResult(sid, result) ==
    /\ srv' = [srv EXCEPT ![sid].result = result]
    /\ es' = Broadcast(sid, Complete(sid))

\* an accepted setResult needs no budget: a session takes one result
setResult(sid, result) ==
    /\ IF setResultError(sid) = Null
       THEN /\ DoSetResult(sid, result)
            /\ srvOps' = srvOps + 1
            /\ trk' = Accepted("setResult", sid, Complete(sid))
       ELSE /\ trk' = Rejected("setResult", sid, setResultError(sid))
            /\ UNCHANGED <<srv, es, srvOps>>
    /\ UNCHANGED <<store, calls, starts, timers, cliOps, netErrs, last, reqs>>

(***************************************************************************)
(* The client store.                                                       *)
(***************************************************************************)
InitStore ==
    [sessionId |-> Null, isConnected |-> FALSE, connectionError |-> Null,
     currentStage |-> "initializing", stageDescription |-> "",
     progressPercentage |-> 0, conversationHistory |-> <<>>,
     userRequirement |-> Null, lyricsVersions |-> <<>>, debugLogs |-> <<>>,
     showDebugPanel |-> FALSE, sessionResult |-> Null, isLoading |-> FALSE,
     error |-> Null, eventSource |-> NoES]

\* x || d of JavaScript, on strings: null and '' are falsy
OrStr(x, d) == IF x = Null \/ x = "" THEN d ELSE x
\* x || d on numbers: 0 is falsy
OrNum(x, d) == IF x = 0 THEN d ELSE x

\* a variant that puts the new turn in front of the history
addConversationTurnFront(st, turn) ==
    [st EXCEPT !.conversationHistory = <<turn>> \o @]

addConversationTurn(st, turn) ==
    [st EXCEPT !.conversationHistory = Append(@, turn)]

\* a variant that keeps the oldest entries (slice(0, 50))
addDebugLogKeepOldest(st, log) ==
    [st EXCEPT !.debugLogs = FirstN(Append(@, log), DebugLogCap)]

addDebugLog(st, log) ==
    [st EXCEPT !.debugLogs = LastN(Append(@, log), DebugLogCap)]

\* es with the store's stream closed, and the store after disconnectFromStream
disconnectES(st) ==
    IF st.eventSource # NoES
    THEN [es EXCEPT ![st.eventSource] = ClosedES]
    ELSE es
disconnectStore(st) ==
    IF st.eventSource # NoES
    THEN [st EXCEPT !.eventSource = NoES, !.isConnected = FALSE]
    ELSE st

\* a variant that issues the snapshot request with the held stream left open
connectToStreamKeepOpen(st, esv) ==
    IF st.sessionId = Null
    THEN /\ store' = st
         /\ es' = esv
         /\ UNCHANGED calls
    ELSE /\ FreeCalls # {}
         /\ Cardinality(FreeES) > Cardinality(PendingCalls)
         /\ es' = esv
         /\ store' = st
         /\ calls' = [calls EXCEPT ![Min(FreeCalls)] =
                        [pc |-> "await", sid |-> st.sessionId,
                         resp |-> [ok |-> "none"]]]

\* connectToStream up to its first await, started from store value st
connectToStream(st, esv) ==
    IF st.sessionId = Null
    THEN /\ store' = st
         /\ es' = esv
         /\ UNCHANGED calls
    ELSE /\ FreeCalls # {}
         /\ Cardinality(FreeES) > Cardinality(PendingCalls)
         /\ es' = IF st.eventSource # NoES
                  THEN [esv EXCEPT ![st.eventSource] = ClosedES]
                  ELSE esv
         /\ store' = [st EXCEPT !.eventSource = NoES]
         /\ calls' = [calls EXCEPT ![Min(FreeCalls)] =
                        [pc |-> "await", sid |-> st.sessionId,
                         resp |-> [ok |-> "none"]]]

ConnectToStream ==
    /\ cliOps < MaxCliOps
    /\ store.sessionId # Null
    /\ connectToStream(store, es)
    /\ cliOps' = cliOps + 1
    /\ last' = Did("connectToStream")
    /\ UNCHANGED <<starts, timers, srv, srvOps, netErrs, reqs, trk>>

\* the server answers getSessionState, or the request fails
ServeSnapshot(c) ==
    /\ calls[c].pc = "await"
    /\ \/ /\ srv[calls[c].sid].exists
          /\ calls' = [calls EXCEPT ![c].pc = "resp",
                          ![c].resp = [ok |-> "success",
                                       data |-> getSnapshot(calls[c].sid)]]
          /\ UNCHANGED netErrs
       \/ /\ ~srv[calls[c].sid].exists
          /\ \E o \in {"unsuccessful", "throw"} :
                calls' = [calls EXCEPT ![c].pc = "resp", ![c].resp = [ok |-> o]]
          /\ UNCHANGED netErrs
       \/ /\ netErrs < MaxNetErrs
          /\ calls' = [calls EXCEPT ![c].pc = "resp", ![c].resp = [ok |-> "throw"]]
          /\ netErrs' = netErrs + 1
    /\ UNCHANGED <<store, es, starts, timers, srv, cliOps, srvOps, last, reqs, trk>>

hydrate(st, state) ==
    [st EXCEPT !.currentStage = state.current_stage,
               !.stageDescription = OrStr(state.stage_description, ""),
               !.progressPercentage = OrNum(state.progress_percentage, 0),
               !.conversationHistory = state.conversation_history,
               !.userRequirement = OrStr(state.user_requirement, Null),
               !.lyricsVersions = state.lyrics_versions,
               !.debugLogs = state.debug_logs]

\* connectToStream after getSessionState has settled
ConnectResume(c) ==
    /\ calls[c].pc = "resp"
    /\ calls' = [calls EXCEPT ![c] = IdleCall]
    /\ IF calls[c].resp.ok = "throw"
       THEN /\ store' = [store EXCEPT !.connectionError = SSEFailed]
            /\ last' = Did("connectFailed")
            /\ UNCHANGED es
       ELSE LET st1 == IF calls[c].resp.ok = "success"
                       THEN hydrate(store, calls[c].resp.data)
                       ELSE store
                e == Min(FreeES)
            IN /\ es' = [es EXCEPT ![e] = [state |-> "connecting",
                                           session |-> calls[c].sid,
                                           queue |-> <<>>]]
               /\ store' = [st1 EXCEPT !.eventSource = e]
               /\ last' = IF calls[c].resp.ok = "success"
                          THEN Did("hydrate") ELSE Did("subscribe")
    /\ UNCHANGED <<starts, timers, srv, cliOps, srvOps, netErrs, reqs, trk>>

\* the server accepts the stream; the browser fires onopen
EsOpen(e) ==
    /\ es[e].state = "connecting"
    /\ srv[es[e].session].exists
    /\ es' = [es EXCEPT ![e].state = "open"]
    /\ store' = [store EXCEPT !.isConnected = TRUE, !.connectionError = Null]
    /\ last' = Did("onopen")
    /\ UNCHANGED <<calls, starts, timers, srv, cliOps, srvOps, netErrs, reqs, trk>>

\* eventSource.onerror
onerror(st) == [st EXCEPT !.isConnected = FALSE, !.connectionError = SSEFailed]

\* the transport fails: the browser fires a plain error Event.  onerror runs;
\* the 'error' listener's JSON.parse(undefined) throws and changes nothing.
\* The browser then retries by itself or gives the stream up.
EsError(e) ==
    /\ Live(e)
    /\ \/ /\ srv[es[e].session].exists
          /\ netErrs < MaxNetErrs
          /\ netErrs' = netErrs + 1
          /\ \E s \in {"connecting", "closed"} :
                es' = [es EXCEPT ![e] = IF s = "closed" THEN ClosedES
                                        ELSE [@ EXCEPT !.state = s, !.queue = <<>>]]
       \/ /\ ~srv[es[e].session].exists
          /\ es' = [es EXCEPT ![e] = ClosedES]
          /\ UNCHANGED netErrs
    /\ store' = onerror(store)
    /\ last' = Did("onerror")
    /\ UNCHANGED <<calls, starts, timers, srv, cliOps, srvOps, reqs, trk>>

\* the listeners of connectToStream, one per event kind
onChatMessage(st, data) ==
    addConversationTurn(st, [role |-> data.role, content |-> data.content,
                             timestamp |-> data.timestamp])

\* a variant that treats progress as an increment
onStateUpdateAccumulate(st, data) ==
    [st EXCEPT !.currentStage = data.stage,
               !.stageDescription = data.description,
               !.progressPercentage = @ + data.progress]

\* a variant that leaves the description of the previous stage in place
onStateUpdatePartial(st, data) ==
    [st EXCEPT !.currentStage = data.stage,
               !.progressPercentage = data.progress]

onStateUpdate(st, data) ==
    [st EXCEPT !.currentStage = data.stage,
               !.stageDescription = data.description,
               !.progressPercentage = data.progress]

onDebugLog(st, data) ==
    addDebugLog(st, [timestamp |-> data.timestamp, level |-> data.level,
                     message |-> data.message])

\* a server-sent message named 'error' is an event of type error at the
\* EventSource: the onerror handler, registered first, runs on it too, and
\* then the listener stores the message
onErrorEvent(st, data) == [onerror(st) EXCEPT !.error = data.error]

listener(st, ev) ==
    CASE ev.kind = "chat_message" -> onChatMessage(st, ev.data)
      [] ev.kind = "state_update" -> onStateUpdate(st, ev.data)
      [] ev.kind = "debug_log" -> onDebugLog(st, ev.data)
      [] ev.kind = "error" -> onErrorEvent(st, ev.data)
      [] OTHER -> st

\* the content of event ev is already part of store st
Reflected(st, ev) ==
    CASE ev.kind = "chat_message" -> ev.data \in {st.conversationHistory[i] :
                                                   i \in DOMAIN st.conversationHistory}
      [] ev.kind = "state_update" ->
            <<st.currentStage, st.stageDescription, st.progressPercentage>>
                = <<ev.data.stage, ev.data.description, ev.data.progress>>
      [] ev.kind = "debug_log" -> ev.data \in {st.debugLogs[i] :
                                                i \in DOMAIN st.debugLogs}
      [] OTHER -> FALSE

\* fetchSessionResult up to its await: the invocations suspended after it
fetchSessionResult(st) ==
    IF st.sessionId = Null
    THEN reqs
    ELSE [reqs EXCEPT ![Min(FreeReqs)] =
            [op |-> "result", pc |-> "await", sid |-> st.sessionId,
             arg |-> <<>>, resp |-> [ok |-> "none"]]]

\* the browser dispatches the next received event of an open stream; the
\* 'complete' listener calls fetchSessionResult
Dispatch(e) ==
    /\ es[e].state = "open"
    /\ es[e].queue # <<>>
    /\ es' = [es EXCEPT ![e].queue = Tail(@)]
    /\ store' = listener(store, Head(es[e].queue))
    /\ last' = [op |-> Head(es[e].queue).kind,
                 reflected |-> Reflected(store, Head(es[e].queue))]
    /\ IF Head(es[e].queue).kind = "complete"
       THEN /\ store.sessionId # Null => FreeReqs # {}
            /\ reqs' = fetchSessionResult(store)
       ELSE UNCHANGED reqs
    /\ UNCHANGED <<calls, starts, timers, srv, cliOps, srvOps, netErrs, trk>>

\* the server answers the result request, or the request fails
ServeResult(r) ==
    /\ reqs[r].pc = "await"
    /\ reqs[r].op = "result"
    /\ \/ /\ srv[reqs[r].sid].exists
          /\ srv[reqs[r].sid].result # Null
          /\ reqs' = [reqs EXCEPT ![r].pc = "resp",
                        ![r].resp = [ok |-> "success",
                                     data |-> srv[reqs[r].sid].result]]
          /\ UNCHANGED netErrs
       \/ /\ ~(srv[reqs[r].sid].exists /\ srv[reqs[r].sid].result # Null)
          /\ \E o \in {"unsuccessful", "throw"} :
                reqs' = [reqs EXCEPT ![r].pc = "resp", ![r].resp = [ok |-> o]]
          /\ UNCHANGED netErrs
       \/ /\ netErrs < MaxNetErrs
          /\ reqs' = [reqs EXCEPT ![r].pc = "resp", ![r].resp = [ok |-> "throw"]]
          /\ netErrs' = netErrs + 1
    /\ UNCHANGED <<store, es, calls, starts, timers, srv, cliOps, srvOps, last, trk>>

\* a variant that clears the result when the fetch fails
fetchSessionResultSettledClearing(st, resp) ==
    IF resp.ok = "success"
    THEN [st EXCEPT !.sessionResult = resp.data]
    ELSE [st EXCEPT !.sessionResult = Null, !.error = "fetch failed"]

\* fetchSessionResult after getSessionResult has settled
fetchSessionResultSettled(st, resp) ==
    IF resp.ok = "success"
    THEN [st EXCEPT !.sessionResult = resp.data]
    ELSE st

FetchResume(r) ==
    /\ reqs[r].pc = "resp"
    /\ reqs[r].op = "result"
    /\ store' = fetchSessionResultSettled(store, reqs[r].resp)
    /\ reqs' = [reqs EXCEPT ![r] = IdleReq]
    /\ last' = IF reqs[r].resp.ok = "success"
               THEN Did("fetchSessionResult") ELSE Did("fetchFailed")
    /\ UNCHANGED <<es, calls, starts, timers, srv, cliOps, srvOps, netErrs, trk>>

DisconnectFromStream ==
    /\ cliOps < MaxCliOps
    /\ store.eventSource # NoES
    /\ es' = disconnectES(store)
    /\ store' = disconnectStore(store)
    /\ cliOps' = cliOps + 1
    /\ last' = Did("disconnectFromStream")
    /\ UNCHANGED <<calls, starts, timers, srv, srvOps, netErrs, reqs, trk>>

clearSession ==
    /\ cliOps < MaxCliOps
    /\ es' = disconnectES(store)
    /\ store' = [InitStore EXCEPT !.showDebugPanel = store.showDebugPanel,
                                  !.isLoading = store.isLoading]
    /\ cliOps' = cliOps + 1
    /\ last' = Did("clearSession")
    /\ UNCHANGED <<calls, starts, timers, srv, srvOps, netErrs, reqs, trk>>

\* feedback || null
OrNull(x) == IF x \in {Null, ""} THEN Null ELSE x

\* a variant that applies the review before the server has answered
reviewLyricsOptimistic(st, version, approved, feedback) ==
    [st EXCEPT !.isLoading = TRUE,
               !.lyricsVersions =
                   [i \in 1..Len(st.lyricsVersions) |->
                       IF st.lyricsVersions[i].version = version
                       THEN [st.lyricsVersions[i] EXCEPT
                                !.approved = approved,
                                !.user_feedback = OrNull(feedback)]
                       ELSE st.lyricsVersions[i]]]

\* reviewLyrics up to its await
reviewLyricsBegin(st, version, approved, feedback) ==
    [st EXCEPT !.isLoading = TRUE]

\* reviewLyrics after a successful response
reviewLyricsSucceeded(st, version, approved, feedback) ==
    [st EXCEPT !.lyricsVersions =
                   [i \in 1..Len(st.lyricsVersions) |->
                       IF st.lyricsVersions[i].version = version
                       THEN [st.lyricsVersions[i] EXCEPT
                                !.approved = approved,
                                !.user_feedback = OrNull(feedback)]
                       ELSE st.lyricsVersions[i]],
               !.isLoading = FALSE]

\* reviewLyrics' catch block
reviewLyricsFailed(st, message) ==
    [st EXCEPT !.error = message, !.isLoading = FALSE]

ReviewLyrics(version, approved, feedback) ==
    /\ cliOps < MaxCliOps
    /\ store.sessionId # Null
    /\ FreeReqs # {}
    /\ store' = reviewLyricsBegin(store, version, approved, feedback)
    /\ reqs' = [reqs EXCEPT ![Min(FreeReqs)] =
                  [op |-> "review", pc |-> "await", sid |-> store.sessionId,
                   arg |-> <<version, approved, feedback>>,
                   resp |-> [ok |-> "none"]]]
    /\ cliOps' = cliOps + 1
    /\ last' = Did("reviewLyrics")
    /\ UNCHANGED <<es, calls, starts, timers, srv, srvOps, netErrs, trk>>

\* the server runs the tracker's reviewLyrics and answers, or the request
\* fails on its way
ServeReview(r) ==
    /\ reqs[r].pc = "await"
    /\ reqs[r].op = "review"
    /\ LET sid == reqs[r].sid
           v == reqs[r].arg[1]
       IN \/ /\ reviewLyricsError(sid, v) = Null
             /\ srv' = [srv EXCEPT ![sid].lyricsVersions =
                           reviewed(@, v, reqs[r].arg[2], reqs[r].arg[3])]
             /\ es' = Broadcast(sid, StateUpdateNow(sid))
             /\ trk' = Accepted("reviewLyrics", sid, StateUpdateNow(sid))
             /\ reqs' = [reqs EXCEPT ![r].pc = "resp",
                                     ![r].resp = [ok |-> "success"]]
             /\ UNCHANGED netErrs
          \/ /\ reviewLyricsError(sid, v) # Null
             /\ trk' = Rejected("reviewLyrics", sid, reviewLyricsError(sid, v))
             /\ \E o \in {"unsuccessful", "throw"}, m \in {Null, reviewLyricsError(sid, v)} :
                   reqs' = [reqs EXCEPT ![r].pc = "resp",
                                        ![r].resp = [ok |-> o, message |-> m]]
             /\ UNCHANGED <<srv, es, netErrs>>
          \/ /\ netErrs < MaxNetErrs
             /\ reqs' = [reqs EXCEPT ![r].pc = "resp",
                                     ![r].resp = [ok |-> "throw",
                                                  message |-> NetworkError]]
             /\ netErrs' = netErrs + 1
             /\ UNCHANGED <<srv, es, trk>>
    /\ UNCHANGED <<store, calls, starts, timers, cliOps, srvOps, last>>

\* reviewLyrics after apiClient.reviewLyrics has settled
ReviewResume(r) ==
    /\ reqs[r].pc = "resp"
    /\ reqs[r].op = "review"
    /\ IF reqs[r].resp.ok = "success"
       THEN /\ store' = reviewLyricsSucceeded(store, reqs[r].arg[1],
                                              reqs[r].arg[2], reqs[r].arg[3])
            /\ last' = Did("reviewLyricsOk")
       ELSE /\ store' = reviewLyricsFailed(store,
                                           OrStr(reqs[r].resp.message, ReviewFailed))
            /\ last' = Did("reviewLyricsFailed")
    /\ reqs' = [reqs EXCEPT ![r] = IdleReq]
    /\ UNCHANGED <<es, calls, starts, timers, srv, cliOps, srvOps, netErrs, trk>>

\* the message texts a user sends
Contents == {"text"}

\* a variant that shows the user's turn before the server has answered
sendMessageOptimistic(st, content) ==
    [st EXCEPT !.isLoading = TRUE,
               !.conversationHistory =
                   Append(@, [role |-> "user", content |-> content,
                              timestamp |-> Len(@) + 1])]

\* sendMessage up to its await
sendMessageBegin(st, content) ==
    [st EXCEPT !.isLoading = TRUE]

\* sendMessage after a successful response
sendMessageSucceeded(st) ==
    [st EXCEPT !.isLoading = FALSE]

\* sendMessage's catch block
sendMessageFailed(st, message) ==
    [st EXCEPT !.error = message, !.isLoading = FALSE]

\* sendMessage: with no session it returns at once and requests nothing
SendMessage(content) ==
    /\ cliOps < MaxCliOps
    /\ cliOps' = cliOps + 1
    /\ IF store.sessionId = Null
       THEN /\ last' = Did("sendMessageNoSession")
            /\ UNCHANGED <<store, reqs>>
       ELSE /\ FreeReqs # {}
            /\ store' = sendMessageBegin(store, content)
            /\ reqs' = [reqs EXCEPT ![Min(FreeReqs)] =
                          [op |-> "send", pc |-> "await", sid |-> store.sessionId,
                           arg |-> <<content>>, resp |-> [ok |-> "none"]]]
            /\ last' = Did("sendMessage")
    /\ UNCHANGED <<es, calls, starts, timers, srv, srvOps, netErrs, trk>>

\* the server appends the user's turn through the tracker and answers, or
\* the tracker refuses, or the request fails on its way
ServeSend(r) ==
    /\ reqs[r].pc = "await"
    /\ reqs[r].op = "send"
    /\ LET sid == reqs[r].sid
       IN \/ /\ Refusal(sid) = Null
             /\ DoAppendConversationTurn(sid, "user")
             /\ trk' = Accepted("appendConversationTurn", sid,
                                [kind |-> "chat_message",
                                 data |-> srv'[sid].history[Len(srv'[sid].history)]])
             /\ reqs' = [reqs EXCEPT ![r].pc = "resp",
                                     ![r].resp = [ok |-> "success"]]
             /\ UNCHANGED netErrs
          \/ /\ Refusal(sid) # Null
             /\ trk' = Rejected("appendConversationTurn", sid, Refusal(sid))
             /\ \E o \in {"unsuccessful", "throw"}, m \in {Null, Refusal(sid)} :
                   reqs' = [reqs EXCEPT ![r].pc = "resp",
                                        ![r].resp = [ok |-> o, message |-> m]]
             /\ UNCHANGED <<srv, es, netErrs>>
          \/ /\ netErrs < MaxNetErrs
             /\ reqs' = [reqs EXCEPT ![r].pc = "resp",
                                     ![r].resp = [ok |-> "throw",
                                                  message |-> NetworkError]]
             /\ netErrs' = netErrs + 1
             /\ UNCHANGED <<srv, es, trk>>
    /\ UNCHANGED <<store, calls, starts, timers, cliOps, srvOps, last>>

\* sendMessage after apiClient.sendMessage has settled
SendResume(r) ==
    /\ reqs[r].pc = "resp"
    /\ reqs[r].op = "send"
    /\ IF reqs[r].resp.ok = "success"
       THEN /\ store' = sendMessageSucceeded(store)
            /\ last' = Did("sendMessageOk")
       ELSE /\ store' = sendMessageFailed(store,
                                          OrStr(reqs[r].resp.message, SendFailed))
            /\ last' = Did("sendMessageFailed")
    /\ reqs' = [reqs EXCEPT ![r] = IdleReq]
    /\ UNCHANGED <<es, calls, starts, timers, srv, cliOps, srvOps, netErrs, trk>>

\* a variant of startSession's catch block that also forgets the session
startSessionFailedClearing(st, message) ==
    [st EXCEPT !.sessionId = Null, !.error = message, !.isLoading = FALSE]

\* startSession's catch block
startSessionFailed(st, message) ==
    [st EXCEPT !.error = message, !.isLoading = FALSE]

\* the id createSession allocates
FreshId == IF \E s \in Sessions : ~srv[s].exists
           THEN {CHOOSE s \in Sessions : ~srv[s].exists}
           ELSE {}

\* startSession up to its await
StartSession ==
    /\ cliOps < MaxCliOps
    /\ starts < MaxStarts
    /\ store' = [store EXCEPT !.isLoading = TRUE, !.error = Null]
    /\ starts' = starts + 1
    /\ cliOps' = cliOps + 1
    /\ last' = Did("startSession")
    /\ UNCHANGED <<es, calls, timers, srv, srvOps, netErrs, reqs, trk>>

\* apiClient.startSession settles: the tracker created a session, or not
StartSessionResume ==
    /\ starts > 0
    /\ starts' = starts - 1
    /\ \/ \E sid \in FreshId :
            /\ srv' = [srv EXCEPT ![sid] = NewSession]
            /\ connectToStream([store EXCEPT !.sessionId = sid,
                                   !.currentStage = "initializing",
                                   !.stageDescription = SessionCreated,
                                   !.progressPercentage = 0,
                                   !.isLoading = FALSE], es)
            /\ last' = Did("startSessionOk")
       \/ /\ \E m \in {StartFailed, NetworkError} :
                store' = startSessionFailed(store, m)
          /\ last' = Did("startSessionFailed")
          /\ UNCHANGED <<es, calls, srv>>
    /\ UNCHANGED <<timers, cliOps, srvOps, netErrs, reqs, trk>>

\* the chat page's effect for route parameter sid
ChatPageEffect(sid) ==
    /\ cliOps < MaxCliOps
    /\ sid # store.sessionId
    /\ es' = disconnectES(store)
    /\ store' = [disconnectStore(store) EXCEPT !.sessionId = sid]
    /\ timers' = timers + 1
    /\ cliOps' = cliOps + 1
    /\ last' = Did("chatPageEffect")
    /\ UNCHANGED <<calls, starts, srv, srvOps, netErrs, reqs, trk>>

\* the 100 ms timer fires
TimerFire ==
    /\ timers > 0
    /\ timers' = timers - 1
    /\ connectToStream(store, es)
    /\ last' = Did("connectToStream")
    /\ UNCHANGED <<starts, srv, cliOps, srvOps, netErrs, reqs, trk>>

Init ==
    /\ store = InitStore
    /\ es = [e \in ESIds |-> UnusedES]
    /\ calls = [c \in CallIds |-> IdleCall]
    /\ starts = 0
    /\ timers = 0
    /\ srv = [s \in Sessions |-> IF s = "A" THEN NewSession ELSE NoSession]
    /\ cliOps = 0
    /\ srvOps = 0
    /\ netErrs = 0
    /\ last = Did("init")
    /\ reqs = [r \in ReqIds |-> IdleReq]
    /\ trk = NoReport

Next ==
    \/ \E sid \in Sessions, r \in Roles : appendConversationTurn(sid, r)
    \/ \E sid \in Sessions, s \in Stages : advanceStage(sid, s)
    \/ \E sid \in Sessions, m \in ErrorStrings : emitError(sid, m)
    \/ ConnectToStream
    \/ \E c \in CallIds : ServeSnapshot(c)
    \/ \E c \in CallIds : ConnectResume(c)
    \/ \E e \in ESIds : EsOpen(e)
    \/ \E e \in ESIds : EsError(e)
    \/ \E e \in ESIds : Dispatch(e)
    \/ DisconnectFromStream
    \/ clearSession
    \/ StartSession
    \/ StartSessionResume
    \/ \E sid \in Sessions : ChatPageEffect(sid)
    \/ TimerFire

Spec == Init /\ [][Next]_vars

(***************************************************************************)
(* The debug-log specification: one client connects to session A while    *)
(* the pipeline appends debug logs, beyond the capacity of the buffers.    *)
(***************************************************************************)
NextLog ==
    \/ appendDebugLog("A")
    \/ ChatPageEffect("A")
    \/ TimerFire
    \/ \E c \in CallIds : ServeSnapshot(c)
    \/ \E c \in CallIds : ConnectResume(c)
    \/ \E e \in ESIds : EsOpen(e)
    \/ \E e \in ESIds : Dispatch(e)

SpecLog == Init /\ [][NextLog]_vars

(***************************************************************************)
(* The tracker on its own: the pipeline calls the operations in any order  *)
(* and with any arguments, legal or not.                                   *)
(***************************************************************************)
Results == {ResultPayload, "other result"}

NextTracker ==
    \/ \E sid \in Sessions, s \in Stages : trackerAdvanceStage(sid, s)
    \/ \E sid \in Sessions, r \in Roles : trackerAppendConversationTurn(sid, r)
    \/ \E sid \in Sessions : addLyricsVersion(sid)
    \/ \E sid \in Sessions, v \in 1..(MaxVersions + 1), a \in BOOLEAN,
          f \in Feedbacks : trackerReviewLyrics(sid, v, a, f)
    \/ \E sid \in Sessions, r \in Results : setResult(sid, r)

SpecTracker == Init /\ [][NextTracker]_vars

(***************************************************************************)
(* The broadcaster's fan-out on its own: es are the delivery handles of    *)
(* any clients' subscriptions; a subscriber takes its events when it       *)
(* pleases, or never.                                                      *)
(***************************************************************************)
Subscribe(e, sid) ==
    /\ es[e].state = "none"
    /\ srv[sid].exists
    /\ es' = [es EXCEPT ![e] = [state |-> "open", session |-> sid, queue |-> <<>>]]
    /\ UNCHANGED <<store, calls, starts, timers, srv, cliOps, srvOps, netErrs,
                   last, reqs, trk>>

Receive(e) ==
    /\ es[e].state = "open"
    /\ es[e].queue # <<>>
    /\ es' = [es EXCEPT ![e].queue = Tail(@)]
    /\ UNCHANGED <<store, calls, starts, timers, srv, cliOps, srvOps, netErrs,
                   last, reqs, trk>>

Unsubscribe(e) ==
    /\ es[e].state = "open"
    /\ es' = [es EXCEPT ![e] = ClosedES]
    /\ UNCHANGED <<store, calls, starts, timers, srv, cliOps, srvOps, netErrs,
                   last, reqs, trk>>

Emission ==
    \/ \E sid \in Sessions, r \in Roles : appendConversationTurn(sid, r)
    \/ \E sid \in Sessions, s \in Stages : advanceStage(sid, s)
    \/ \E sid \in Sessions, m \in ErrorStrings : emitError(sid, m)

NextFanout ==
    \/ \E e \in ESIds, sid \in Sessions : Subscribe(e, sid)
    \/ \E e \in ESIds : Receive(e)
    \/ \E e \in ESIds : Unsubscribe(e)
    \/ Emission

SpecFanout == Init /\ [][NextFanout]_vars

(***************************************************************************)
(* The end of a session: the pipeline finishes session A and sets its      *)
(* result while a client is on the chat page.                              *)
(***************************************************************************)
InitResult ==
    /\ store = InitStore
    /\ es = [e \in ESIds |-> UnusedES]
    /\ calls = [c \in CallIds |-> IdleCall]
    /\ starts = 0
    /\ timers = 0
    /\ srv = [s \in Sessions |->
                IF s = "A"
                THEN [NewSession EXCEPT !.stage = "evaluating_results",
                                        !.description = DescOf("evaluating_results"),
                                        !.progress = ProgOf("evaluating_results")]
                ELSE NoSession]
    /\ cliOps = 0
    /\ srvOps = 0
    /\ netErrs = 0
    /\ last = Did("init")
    /\ reqs = [r \in ReqIds |-> IdleReq]
    /\ trk = NoReport

NextResult ==
    \/ \E s \in Stages : advanceStage("A", s)
    \/ \E r \in Results : setResult("A", r)
    \/ \E sid \in Sessions : ChatPageEffect(sid)
    \/ TimerFire
    \/ \E c \in CallIds : ServeSnapshot(c)
    \/ \E c \in CallIds : ConnectResume(c)
    \/ \E e \in ESIds : EsOpen(e)
    \/ \E e \in ESIds : Dispatch(e)
    \/ \E r \in ReqIds : ServeResult(r)
    \/ \E r \in ReqIds : FetchResume(r)
    \/ clearSession

SpecResult == InitResult /\ [][NextResult]_vars

(***************************************************************************)
(* The lyrics review: session A is in reviewing_lyrics with one version;   *)
(* a client on the chat page reviews versions, existing or not, while the  *)
(* pipeline may add a version or move the session on.                      *)
(***************************************************************************)
InitReview ==
    /\ store = InitStore
    /\ es = [e \in ESIds |-> UnusedES]
    /\ calls = [c \in CallIds |-> IdleCall]
    /\ starts = 0
    /\ timers = 0
    /\ srv = [s \in Sessions |->
                IF s = "A"
                THEN [NewSession EXCEPT
                        !.stage = "reviewing_lyrics",
                        !.description = DescOf("reviewing_lyrics"),
                        !.progress = ProgOf("reviewing_lyrics"),
                        !.lyricsVersions = <<[version |-> 1, content |-> "lyrics",
                                              approved |-> FALSE,
                                              user_feedback |-> Null]>>]
                ELSE NoSession]
    /\ cliOps = 0
    /\ srvOps = 0
    /\ netErrs = 0
    /\ last = Did("init")
    /\ reqs = [r \in ReqIds |-> IdleReq]
    /\ trk = NoReport

\* version, approved, feedback: the last version never exists
ReviewInputs == {<<1, TRUE, "too slow">>, <<2, FALSE, "">>,
                 <<MaxVersions + 1, FALSE, "too slow">>}

NextReview ==
    \/ addLyricsVersion("A")
    \/ ChatPageEffect("A")
    \/ TimerFire
    \/ \E c \in CallIds : ServeSnapshot(c)
    \/ \E c \in CallIds : ConnectResume(c)
    \/ \E e \in ESIds : EsOpen(e)
    \/ \E e \in ESIds : Dispatch(e)
    \/ \E i \in ReviewInputs : ReviewLyrics(i[1], i[2], i[3])
    \/ \E r \in ReqIds : ServeReview(r)
    \/ \E r \in ReqIds : ReviewResume(r)

SpecReview == InitReview /\ [][NextReview]_vars

(***************************************************************************)
(* The requests of the store: session A is collecting requirements; a      *)
(* client creates a session or opens A on the chat page, sends messages    *)
(* and reviews lyrics, in any interleaving, while the pipeline may fail     *)
(* the session.                                                            *)
(***************************************************************************)
InitRequests ==
    /\ store = InitStore
    /\ es = [e \in ESIds |-> UnusedES]
    /\ calls = [c \in CallIds |-> IdleCall]
    /\ starts = 0
    /\ timers = 0
    /\ srv = [s \in Sessions |->
                IF s = "A"
                THEN [NewSession EXCEPT
                        !.stage = "collecting_requirements",
                        !.description = DescOf("collecting_requirements"),
                        !.progress = ProgOf("collecting_requirements")]
                ELSE NoSession]
    /\ cliOps = 0
    /\ srvOps = 0
    /\ netErrs = 0
    /\ last = Did("init")
    /\ reqs = [r \in ReqIds |-> IdleReq]
    /\ trk = NoReport

NextRequests ==
    \/ advanceStage("A", "failed")
    \/ StartSession
    \/ StartSessionResume
    \/ ChatPageEffect("A")
    \/ TimerFire
    \/ \E c \in CallIds : ServeSnapshot(c)
    \/ \E c \in CallIds : ConnectResume(c)
    \/ \E e \in ESIds : EsOpen(e)
    \/ \E e \in ESIds : Dispatch(e)
    \/ \E content \in Contents : SendMessage(content)
    \/ \E r \in ReqIds : ServeSend(r)
    \/ \E r \in ReqIds : SendResume(r)
    \/ ReviewLyrics(1, TRUE, "too slow")
    \/ \E r \in ReqIds : ServeReview(r)
    \/ \E r \in ReqIds : ReviewResume(r)

SpecRequests == InitRequests /\ [][NextRequests]_vars

TypeOK ==
    /\ store.sessionId \in Sessions \cup {Null}
    /\ store.eventSource \in ESIds \cup {NoES}
    /\ \A e \in ESIds : es[e].state \in {"none", "connecting", "open", "closed"}
    /\ timers \in 0..MaxCliOps

(***************************************************************************)
(* Views used by the properties.                                           *)
(***************************************************************************)
Replica(st) ==
    [currentStage |-> st.currentStage,
     stageDescription |-> st.stageDescription,
     progressPercentage |-> st.progressPercentage,
     conversationHistory |-> st.conversationHistory,
     userRequirement |-> st.userRequirement,
     lyricsVersions |-> st.lyricsVersions,
     debugLogs |-> st.debugLogs]

Triple(st) == <<st.currentStage, st.stageDescription, st.progressPercentage>>

Range(f) == {f[i] : i \in DOMAIN f}

\* nothing is in flight: no call is suspended, no timer is pending and every
\* delivered event has been applied
Settled ==
    /\ PendingCalls = {}
    /\ timers = 0
    /\ starts = 0
    /\ \A e \in ESIds : es[e].queue = <<>>

\* the client ran connectToStream exactly once, without a transport failure,
\* and its stream is open
ConnectedOnce ==
    /\ Cardinality(FreeES) = MaxES - 1
    /\ netErrs = 0
    /\ store.sessionId # Null
    /\ store.eventSource # NoES
    /\ es[store.eventSource].state = "open"
    /\ es[store.eventSource].session = store.sessionId

\* C1: once a client that snapshotted and then subscribed has applied every
\* delivered delta, its replica equals the server's snapshot of that moment.
C1_Convergence ==
    (ConnectedOnce /\ Settled) =>
        Replica(store) = Replica(hydrate(InitStore, getSnapshot(store.sessionId)))

\* C2: at most one EventSource created by the store is open at any time.
C2_OneLiveSubscription == Cardinality(LiveES) <= 1

\* C3: every turn the tracker appended after the snapshot was read (in
\* particular one appended before the subscription was established) is in
\* the client's conversationHistory once the delivered deltas are applied.
C3_NoGaps ==
    (ConnectedOnce /\ Settled) =>
        \A i \in DOMAIN srv[store.sessionId].history :
            srv[store.sessionId].history[i] \in Range(store.conversationHistory)

\* C4: when the error callback of the store's stream fires for a dropped
\* stream, the store closes that stream and starts connectToStream again.
C4_ReconnectOnDrop ==
    [][\A e \in ESIds :
          (EsError(e) /\ e = store.eventSource /\ es[e].state = "open") =>
              (es'[e].state = "closed" /\ PendingCalls' # {})]_vars

\* C5: delivering an event whose content the replica already reflects leaves
\* the replica equal to the server's state.
C5_DuplicateTolerance ==
    [][\A e \in ESIds :
          (/\ Dispatch(e)
           /\ Reflected(store, Head(es[e].queue))
           /\ Replica(store) = Replica(hydrate(InitStore, getSnapshot(es[e].session))))
          => Replica(store') = Replica(hydrate(InitStore, getSnapshot(es[e].session)))]_vars

\* the triples a single source can put into the store: the initial values,
\* startSession's values, a snapshot, a state_update event
SourceTriples ==
    {Triple(InitStore), <<"initializing", SessionCreated, 0>>}
    \cup {<<s, OrStr(DescOf(s), ""), OrNum(ProgOf(s), 0)>> : s \in Stages}
    \cup {<<s, DescOf(s), ProgOf(s)>> : s \in Stages}

EventTriple(ev) == <<ev.data.stage, ev.data.description, ev.data.progress>>

\* stream e hands its next event, of the given kind, to the store
Delivers(e, kind) == Dispatch(e) /\ Head(es[e].queue).kind = kind

\* C6: applying a state_update event that was just applied once more leaves
\* currentStage, stageDescription and progressPercentage as they were.
C6_StateUpdateIdempotent ==
    [][\A e \in ESIds :
          Delivers(e, "state_update") =>
              /\ Triple(listener(store', Head(es[e].queue))) = Triple(store')
              /\ Reflected(store, Head(es[e].queue)) => Triple(store') = Triple(store)]_vars

C6_Witness ==
    /\ last = [op |-> "state_update", reflected |-> TRUE]
    /\ store.currentStage # "initializing"

\* C7: a state_update overwrites the whole triple in one update, so the
\* triple in the store is always the triple of one single source.
C7_AtomicTriple ==
    /\ [](Triple(store) \in SourceTriples)
    /\ [][\A e \in ESIds :
             Delivers(e, "state_update") =>
                 Triple(store') = EventTriple(Head(es[e].queue))]_vars

C7_Witness ==
    /\ last = [op |-> "state_update", reflected |-> FALSE]
    /\ store.currentStage \notin {"initializing", "failed"}
    /\ store.progressPercentage > 0

\* C8: debugLogs never holds more than 50 entries, on the client and on the
\* tracker, and an append keeps the most recent entries in arrival order,
\* evicting the oldest first.
C8_BoundedDebugLog ==
    /\ [](/\ Len(store.debugLogs) <= DebugLogCap
          /\ \A sid \in Sessions :
                LET logs == srv[sid].debugLogs
                    n == srv[sid].logCount
                IN /\ Len(logs) = IF n < DebugLogCap THEN n ELSE DebugLogCap
                   /\ \A i \in DOMAIN logs : logs[i].timestamp = n - Len(logs) + i)
    /\ [][\A e \in ESIds :
             Delivers(e, "debug_log") =>
                 LET old == store.debugLogs
                     new == store'.debugLogs
                     k == IF Len(old) < DebugLogCap THEN Len(old) + 1 ELSE DebugLogCap
                 IN /\ Len(new) = k
                    /\ new[k] = Head(es[e].queue).data
                    /\ SubSeq(new, 1, k - 1) = LastN(old, k - 1)]_vars

C8_Witness ==
    /\ last.op = "debug_log"
    /\ Len(store.debugLogs) = DebugLogCap
    /\ store.debugLogs[1].timestamp > 1
    /\ srv["A"].logCount > DebugLogCap

\* timestamps of the turns of h increase strictly
Increasing(h) == \A i, j \in DOMAIN h : i < j => h[i].timestamp < h[j].timestamp

C10_ErrorEventKeepsStream ==
    [][\A e \in ESIds :
          Delivers(e, "error") =>
              /\ store'.error = Head(es[e].queue).data.error
              /\ store'.eventSource = store.eventSource
              /\ es'[e].state = "open"
              /\ store'.isConnected = store.isConnected
              /\ store'.connectionError = store.connectionError]_vars


(***************************************************************************)
(* C11: the 'complete' listener leaves the store as it is and starts a     *)
(* fetch of the result for the store's session; sessionResult changes only *)
(* when a fetchSessionResult settles with a successful response, and then  *)
(* to the data of that response; a fetch that settles otherwise leaves the *)
(* whole store unchanged.  As stated the claim forgets clearSession, which *)
(* resets sessionResult to null: C11_Original is the claim as stated,      *)
(* C11_ResultOnlyByFetch the claim with that reset admitted.               *)
(***************************************************************************)
CompleteStartsFetch ==
    \A e \in ESIds :
       (Dispatch(e) /\ Head(es[e].queue).kind = "complete")
       => /\ store' = store
          /\ store.sessionId # Null
                => \E r \in ReqIds :
                      /\ reqs[r] = IdleReq
                      /\ reqs'[r].op = "result"
                      /\ reqs'[r].pc = "await"
                      /\ reqs'[r].sid = store.sessionId

FetchSucceeded ==
    \E r \in ReqIds : /\ FetchResume(r)
                       /\ reqs[r].resp.ok = "success"
                       /\ store'.sessionResult = reqs[r].resp.data

FailedFetchChangesNothing ==
    \A r \in ReqIds :
       (FetchResume(r) /\ reqs[r].resp.ok # "success") => store' = store

C11_Original ==
    [][/\ CompleteStartsFetch
       /\ store'.sessionResult # store.sessionResult => FetchSucceeded
       /\ FailedFetchChangesNothing]_vars

C11_ResultOnlyByFetch ==
    [][/\ CompleteStartsFetch
       /\ store'.sessionResult # store.sessionResult
             => \/ FetchSucceeded
                \/ clearSession /\ store'.sessionResult = Null
       /\ FailedFetchChangesNothing]_vars

C11_Witness ==
    /\ store.sessionResult = ResultPayload
    /\ last = Did("fetchFailed")

(***************************************************************************)
(* C12: an EventSource is created only by a connectToStream whose snapshot *)
(* request has been answered, and for the session of that request; when a  *)
(* connectToStream issues its snapshot request the stream the store held   *)
(* has been closed and the store holds none.                               *)
(***************************************************************************)
C12_SnapshotBeforeSubscribe ==
    [][/\ \A e \in ESIds :
             (es[e].state = "none" /\ es'[e].state # "none")
             => \E c \in CallIds :
                   /\ ConnectResume(c)
                   /\ calls[c].resp.ok \in {"success", "unsuccessful"}
                   /\ es'[e].session = calls[c].sid
       /\ \A c \in CallIds :
             (calls[c].pc = "idle" /\ calls'[c].pc = "await")
             => /\ store'.eventSource = NoES
                /\ store.eventSource # NoES
                      => es'[store.eventSource].state = "closed"]_vars

C12_Witness ==
    /\ last = Did("connectToStream")
    /\ \E c \in CallIds : calls[c].pc = "await"
    /\ es[1].state = "closed"
    /\ store.eventSource = NoES
    /\ store.isConnected

(***************************************************************************)
(* C13: when getSessionState throws or answers without success, the        *)
(* connectToStream that asked sets connectionError or error and creates no *)
(* EventSource.                                                            *)
(***************************************************************************)
C13_UnknownSessionHardFailure ==
    [][\A c \in CallIds :
          (ConnectResume(c) /\ calls[c].resp.ok \in {"unsuccessful", "throw"})
          => /\ store'.connectionError # Null \/ store'.error # Null
             /\ es' = es
             /\ store'.eventSource = NoES]_vars

Mutation(sid) ==
    \/ \E s \in Stages : trackerAdvanceStage(sid, s)
    \/ \E r \in Roles : trackerAppendConversationTurn(sid, r)
    \/ addLyricsVersion(sid)
    \/ \E v \in 1..(MaxVersions + 1), a \in BOOLEAN, f \in Feedbacks :
          trackerReviewLyrics(sid, v, a, f)

C15_TerminalClosed ==
    [][\A sid \in Sessions :
          (srv[sid].exists /\ srv[sid].stage \in Terminal)
          => /\ srv'[sid].stage = srv[sid].stage
             /\ Mutation(sid) => /\ trk'.err \in {"SessionClosed", "IllegalTransition",
                                                   "VersionNotFound"}
                                  /\ trk'.emitted = <<>>
                                  /\ srv' = srv
                                  /\ es' = es]_vars

C15_Witness ==
    /\ srv["A"].stage = "completed"
    /\ srv["A"].lyricsVersions # <<>>
    /\ trk = Rejected("reviewLyrics", "A", "SessionClosed")

(***************************************************************************)
(* C16: a result is set only by a setResult on a session that is completed *)
(* and has no result yet; setResult in any other stage is rejected with    *)
(* IllegalTransition, and a set result is never replaced.                  *)
(***************************************************************************)
C16_ResultSetOnce ==
    /\ [](\A sid \in Sessions :
            srv[sid].result # Null => srv[sid].stage = "completed")
    /\ [][\A sid \in Sessions :
            /\ srv[sid].result # Null => srv'[sid].result = srv[sid].result
            /\ srv'[sid].result # srv[sid].result
                  => /\ srv[sid].stage = "completed"
                     /\ \E r \in Results : setResult(sid, r)
            /\ \A r \in Results :
                  (setResult(sid, r) /\ srv[sid].exists
                     /\ srv[sid].stage # "completed")
                  => (trk'.err = "IllegalTransition" /\ srv' = srv /\ es' = es)]_vars

C16_Witness ==
    /\ srv["A"].result = ResultPayload
    /\ trk = Rejected("setResult", "A", "IllegalTransition")

(***************************************************************************)
(* C17: the lyrics versions of a session are numbered 1, 2, ..., n in the  *)
(* order of the sequence; reviewLyrics changes nothing but approved and    *)
(* feedback of the version it names, and a reviewLyrics naming a version   *)
(* that does not exist reports VersionNotFound and changes nothing.        *)
(***************************************************************************)
SameButReview(old, new) ==
    [new EXCEPT !.approved = old.approved, !.user_feedback = old.user_feedback] = old

C17_LyricsVersions ==
    /\ [](\A sid \in Sessions : \A i \in 1..Len(srv[sid].lyricsVersions) :
            srv[sid].lyricsVersions[i].version = i)
    /\ [][\A sid \in Sessions : \A v \in 1..(MaxVersions + 1) :
            (srv[sid].exists /\ trk'.op = "reviewLyrics" /\ trk'.sid = sid
               /\ \E a \in BOOLEAN, f \in Feedbacks : trackerReviewLyrics(sid, v, a, f))
            => IF v \in VersionsOf(sid)
               THEN /\ srv' = [srv EXCEPT ![sid].lyricsVersions = srv'[sid].lyricsVersions]
                    /\ Len(srv'[sid].lyricsVersions) = Len(srv[sid].lyricsVersions)
                    /\ \A i \in 1..Len(srv[sid].lyricsVersions) :
                          IF srv[sid].lyricsVersions[i].version = v
                          THEN SameButReview(srv[sid].lyricsVersions[i],
                                             srv'[sid].lyricsVersions[i])
                          ELSE srv'[sid].lyricsVersions[i] = srv[sid].lyricsVersions[i]
               ELSE /\ trk'.err = "VersionNotFound"
                    /\ srv' = srv
                    /\ es' = es]_vars

C17_Witness ==
    /\ Len(srv["A"].lyricsVersions) = 2
    /\ srv["A"].lyricsVersions[1] = [version |-> 1, content |-> "lyrics",
                                     approved |-> FALSE, user_feedback |-> "too slow"]
    /\ srv["A"].lyricsVersions[2] = [version |-> 2, content |-> "lyrics",
                                     approved |-> TRUE, user_feedback |-> Null]
    /\ trk.op = "reviewLyrics" /\ trk.err = Null

(***************************************************************************)
(* C18: a delta reaches every subscription that is live on its session at  *)
(* the moment it is emitted, and only those; a subscriber that does not    *)
(* take its events, or that has left, neither disables a mutation nor      *)
(* changes what the others receive, and the handle of a subscriber that    *)
(* has left holds nothing.                                                 *)
(***************************************************************************)
Grew(e) == /\ Len(es'[e].queue) = Len(es[e].queue) + 1
           /\ SubSeq(es'[e].queue, 1, Len(es[e].queue)) = es[e].queue

Newest(e) == es'[e].queue[Len(es'[e].queue)]

C19_RepairableMutation ==
    /\ [](\A sid \in Sessions :
            srv[sid].exists
            => Replica(hydrate(store, getSnapshot(sid)))
                  = Replica(hydrate(InitStore, getSnapshot(sid))))
    /\ [][/\ (\E i \in ReviewInputs : ReviewLyrics(i[1], i[2], i[3]))
             => store'.lyricsVersions = store.lyricsVersions
          /\ \A r \in ReqIds :
                ReviewResume(r)
                => IF reqs[r].resp.ok = "success"
                   THEN /\ Len(store'.lyricsVersions) = Len(store.lyricsVersions)
                        /\ \A i \in 1..Len(store.lyricsVersions) :
                              IF store.lyricsVersions[i].version = reqs[r].arg[1]
                              THEN /\ SameButReview(store.lyricsVersions[i],
                                                    store'.lyricsVersions[i])
                                   /\ store'.lyricsVersions[i].approved = reqs[r].arg[2]
                              ELSE store'.lyricsVersions[i] = store.lyricsVersions[i]
                   ELSE /\ store'.lyricsVersions = store.lyricsVersions
                        /\ store'.error # Null]_vars

C19_Witness ==
    /\ last = Did("reviewLyricsFailed")
    /\ store.error = "VersionNotFound"
    /\ Len(store.lyricsVersions) = 1
    /\ store.lyricsVersions[1].approved
    /\ store.lyricsVersions[1].user_feedback = "too slow"

(***************************************************************************)
(* C20: once disconnectFromStream (cleanupSessionStore) or clearSession    *)
(* has run, the store holds no stream until connectToStream is invoked     *)
(* again: no step that follows, before another store operation, puts an    *)
(* EventSource into the store.                                             *)
(***************************************************************************)
C20_DisconnectHonoured ==
    [][last.op \in {"disconnectFromStream", "clearSession"}
          => store'.eventSource = NoES]_vars

(***************************************************************************)
(* C21: the replicated data of the store belongs to the session sessionId  *)
(* names: a snapshot response that was requested for another session than  *)
(* the one sessionId names when it arrives (or when sessionId is null)     *)
(* leaves the replicated data alone, and once a connectToStream for the    *)
(* store's session has finished no turn remains in conversationHistory     *)
(* that the session does not have.                                         *)
(***************************************************************************)
C21_NoCrossSession ==
    [][\A c \in CallIds :
          ConnectResume(c)
          => /\ calls[c].sid # store.sessionId => Replica(store') = Replica(store)
             /\ (calls[c].sid = store.sessionId /\ calls[c].resp.ok # "throw")
                   => Range(store'.conversationHistory)
                         \subseteq Range(srv[calls[c].sid].history)]_vars

(***************************************************************************)
(* C22: isConnected is true only if the store holds an EventSource and     *)
(* that EventSource is open.                                               *)
(***************************************************************************)
C22_ConnectedFlag ==
    store.isConnected
    => (store.eventSource # NoES /\ es[store.eventSource].state = "open")

(***************************************************************************)
(* C23: a client that connects to a session whose result is already set    *)
(* ends up holding the result: when the client has connected once to       *)
(* session A without a transport failure, shows the stage completed, and   *)
(* nothing is in flight any more (no call, no request, no undelivered      *)
(* event), sessionResult is the result the session holds.                  *)
(***************************************************************************)
C23_LateJoinerGetsResult ==
    ( /\ Settled
      /\ \A r \in ReqIds : reqs[r].pc = "idle"
      /\ ConnectedOnce
      /\ store.sessionId = "A"
      /\ store.currentStage = "completed"
      /\ srv["A"].result # Null )
    => store.sessionResult = srv["A"].result

(***************************************************************************)
(* C24: sendMessage never writes the conversation itself: neither its      *)
(* start nor its completion, successful or not, changes the replicated     *)
(* data; with sessionId null it changes nothing in the store and sends no  *)
(* request; and a turn that was not in conversationHistory gets there only *)
(* by the dispatch of a chat_message event or by a connectToStream that    *)
(* resumes with its snapshot.                                              *)
(***************************************************************************)
C24_SendWritesNoConversation ==
    [][/\ \A content \in Contents :
             SendMessage(content)
             => /\ Replica(store') = Replica(store)
                /\ store.sessionId = Null => (store' = store /\ reqs' = reqs)
       /\ \A r \in ReqIds :
             SendResume(r) => Replica(store') = Replica(store)
       /\ Range(store'.conversationHistory)
              \ Range(store.conversationHistory) # {}
          => \/ \E e \in ESIds :
                   /\ es[e].state = "open"
                   /\ es[e].queue # <<>>
                   /\ Head(es[e].queue).kind = "chat_message"
                   /\ Dispatch(e)
             \/ \E c \in CallIds : ConnectResume(c)]_vars

\* a message was sent with success and the user's turn arrived by the stream
C24_Witness ==
    /\ last = Did("sendMessageOk")
    /\ ~store.isLoading
    /\ \E i \in DOMAIN store.conversationHistory :
          store.conversationHistory[i].role = "user"

(***************************************************************************)
(* C25: a failed startSession is contained: sessionId keeps its value, no  *)
(* snapshot is requested and no stream is opened or closed, error holds    *)
(* the failure message and isLoading is false; a successful startSession   *)
(* sets sessionId to the created session before it starts connectToStream, *)
(* whose snapshot request is for that session.                             *)
(***************************************************************************)
C25_StartFailureContained ==
    [][starts' = starts - 1
       => /\ last'.op = "startSessionFailed"
             => /\ store'.sessionId = store.sessionId
                /\ calls' = calls
                /\ es' = es
                /\ srv' = srv
                /\ store'.error \in {StartFailed, NetworkError}
                /\ ~store'.isLoading
          /\ last'.op = "startSessionOk"
             => /\ store'.sessionId \in Sessions
                /\ ~srv[store'.sessionId].exists
                /\ srv'[store'.sessionId].exists
                /\ ~store'.isLoading
                /\ \E c \in CallIds :
                      /\ calls[c].pc = "idle"
                      /\ calls'[c].pc = "await"
                      /\ calls'[c].sid = store'.sessionId]_vars

\* startSession failed while the store was on a session
C25_Witness ==
    /\ last = Did("startSessionFailed")
    /\ store.sessionId # Null
    /\ store.error \in {StartFailed, NetworkError}
    /\ ~store.isLoading
    /\ PendingCalls = {}
    /\ LiveES = {}

\* a startSession, sendMessage or reviewLyrics request has not settled yet
InFlight ==
    \/ starts > 0
    \/ \E r \in ReqIds : reqs[r].op \in {"send", "review"} /\ reqs[r].pc # "idle"

(***************************************************************************)
(* C26: isLoading is true exactly while a startSession, sendMessage or     *)
(* reviewLyrics request is in flight.                                      *)
(***************************************************************************)
C26_LoadingTracksRequests ==
    store.isLoading <=> InFlight

====
